---- MODULE Spec2Model ----
(***************************************************************************)
(* Model of the three Clearcare walkers:                                   *)
(*   json_parser.parse_json                                                *)
(*   tall_format_csv_extractor.extract_tall_format_csv                     *)
(*   wide_format_csv_extractor.extract_wide_format_csv                     *)
(* One process imports one of the three modules (walker) and invokes its   *)
(* walker on one input document under one extract configuration.  The      *)
(* module-level accumulators are created at import (Init) and mutated by   *)
(* the walker.  `out` is the stream of canonical records handed to the     *)
(* writer, keyed by the output header; the byte encoding of the CSV text   *)
(* is not modelled.  Strings are atomic values; dictionaries are functions *)
(* whose DOMAIN is the set of keys present.                                *)
(***************************************************************************)
EXTENDS Integers, Sequences, FiniteSets, TLC

\* ------------------------------------------------------------------ bounds
MaxItems == 2
MaxMods == 1
MaxRows == 2
MaxRuns == 2

\* ----------------------------------------------------- python primitives
None == "<None>"

\* dict.get(k, default)
Get(d, k, default) == IF k \in DOMAIN d THEN d[k] ELSE default

\* defaultdict(int)[k] += 1
Inc(d, k) == [x \in DOMAIN d \cup {k} |-> IF x = k THEN Get(d, k, 0) + 1 ELSE d[x]]

\* defaultdict(set)[k].add(v)
AddTo(d, k, v) == [x \in DOMAIN d \cup {k} |-> IF x = k THEN Get(d, k, {}) \cup {v} ELSE d[x]]

\* a dict literal { k: v, ... }
Dict(kvs) ==
  [k \in {kvs[j][1] : j \in DOMAIN kvs} |-> kvs[CHOOSE j \in DOMAIN kvs : kvs[j][1] = k][2]]

\* the empty dict
EmptyDict == [x \in {} |-> 0]

\* str.strip() on the strings of the model: only these carry outer blanks
Strip(s) ==
  CASE s = " " -> ""
    [] s = " hcpcs " -> "hcpcs"
    [] s = " 99213 " -> "99213"
    [] s = " PayerA " -> "PayerA"
    [] s = " 25,,A " -> "25,,A"
    [] OTHER -> s

\* str.upper() on the strings of the model: only these carry lower case
Upper(s) ==
  CASE s = "hcpcs" -> "HCPCS"
    [] s = "cpt" -> "CPT"
    [] OTHER -> s

RECURSIVE Concat(_)
\* flattening of a sequence of sequences (nested for loops, in order)
Concat(ss) == IF ss = <<>> THEN <<>> ELSE Head(ss) \o Concat(Tail(ss))

RECURSIVE SeqsUpTo(_, _)
\* all sequences over S of length at most n
SeqsUpTo(S, n) ==
  IF n = 0 THEN {<<>>}
  ELSE LET shorter == SeqsUpTo(S, n - 1)
       IN  shorter \cup {Append(s, x) : s \in {t \in shorter : Len(t) = n - 1}, x \in S}

\* ---------------------------------------------------------------- headers
JsonHEADERS ==
  << "hospital name", "zip code", "code", "code type", "description", "drug unit", "drug type",
     "insurance payer name", "insurance payer id", "insurance plan name",
     "negotiated price", "negotiated percentage", "negotiated algorithm", "negotiated methodology",
     "gross charge", "discounted cash price", "min price", "max price", "estimated amount",
     "setting", "additional notes" >>

CsvHEADERS == JsonHEADERS \o << "modifiers" >>

Range(s) == {s[i] : i \in DOMAIN s}

\* registry metadata (load_registry_info), fixed for the run
metadata == [hospital_name |-> "General", zip_code |-> "12345"]

\* the number 0 as json.load yields it; every other sample value is a string
Zero == "<0>"

\* truth value of a string, a number or None
Truthy(v) == v \notin {None, "", Zero}

\* the text csv.DictWriter writes for a value
Str(v) == IF v = Zero THEN "0" ELSE v

\* a record as the writer lays it out: every header, missing keys empty
Written(row, headers) == [h \in Range(headers) |-> Str(Get(row, h, ""))]

\* for key in HEADERS: if row.get(key): FIELD_PRESENCE_LOG[key] += 1
LogFields(log, row, keys) ==
  LET hit == {k \in keys : Truthy(Get(row, k, ""))}
  IN  [k \in DOMAIN log \cup hit |-> Get(log, k, 0) + (IF k \in hit THEN 1 ELSE 0)]

RECURSIVE LogRows(_, _, _)
LogRows(log, rows, keys) ==
  IF rows = <<>> THEN log
  ELSE LogRows(LogFields(log, Head(rows), keys), Tail(rows), keys)

\* ---------------------------------------------------------- configuration
\* load_extract_config: (allowed_code_types, code_type_normalization)
Configs ==
  { [allowed |-> {"CPT", "HCPCS"}, map |-> [k \in {"CPT", "HCPCS"} |-> k]],
    [allowed |-> {"CPT", "MODIFIER"}, map |-> [k \in {"CPT", "HCPCS"} |-> k]] }

VARIABLES
  walker,                  \* which module this process runs
  allowed_code_types,      \* config: allowed set
  code_type_map,           \* config: raw -> canonical
  doc,                     \* the raw input file
  pc,                      \* "scan" in the streaming pass, "run" while the walker loops,
                           \* "done" after the devlog
  scan,                    \* events of the streaming pass consumed
  raw_hospital_location,
  raw_hospital_address,
  i,                       \* line items / body rows consumed
  m,                       \* modifier_information entries consumed
  out,                     \* canonical records written in this invocation
  out_src,                 \* for each record of out, the item/row index it came from (0: modifier)
  UNKNOWN_CODE_TYPES,
  FIELD_PRESENCE_LOG,
  CODE_TYPE_PRESENCE,
  CODE_TYPE_MAPPINGS_USED,
  MODIFIER_COUNTS,
  modifier_list,           \* local of the last CSV row handled
  report,                  \* the devlog of this invocation
  run,                     \* number of the current invocation in this process
  prev_out,                \* records of the previous invocation
  prev_report              \* devlog of the previous invocation

\* the locals of the streaming pass
scan_vars == << scan, raw_hospital_location, raw_hospital_address >>

vars == << walker, allowed_code_types, code_type_map, doc, pc, scan_vars, i, m, out, out_src,
           UNKNOWN_CODE_TYPES, FIELD_PRESENCE_LOG, CODE_TYPE_PRESENCE,
           CODE_TYPE_MAPPINGS_USED, MODIFIER_COUNTS, modifier_list, report,
           run, prev_out, prev_report >>

NoReport == [none |-> TRUE]

\* --------------------------------------------------------- JSON documents
PayerA == [payer_name |-> "PayerA", payer_id |-> "7", plan_name |-> "PlanA",
           standard_charge_dollar |-> "100", negotiated_methodology |-> "case rate"]
PayerB == [payer_name |-> "PayerB", plan_name |-> "PlanB",
           standard_charge_percentage |-> "50", estimated_amount |-> "75",
           additional_payer_notes |-> "note"]

ChargeOne  == [gross_charge |-> "500", setting |-> "outpatient", payers_information |-> << PayerA >>]
ChargeTwo  == [discounted_cash |-> Zero, minimum |-> "10", maximum |-> "90",
               payers_information |-> << PayerA, PayerB >>]
ChargeBare == [gross_charge |-> "500", discounted_cash |-> "400"]

EntryCpt   == [code |-> "99213", type |-> "CPT"]
EntryHcpcs == [code |-> "J1100", type |-> " hcpcs "]
EntryLocal == [code |-> "X1", type |-> "LOCAL"]

DrugInfo == [unit |-> "1", type |-> "ML", estimated_amount |-> "20"]

ItemSamples ==
  { [description |-> "visit", code_information |-> << EntryCpt >>,
     standard_charges |-> << ChargeOne >>, drug_information |-> DrugInfo],
    [description |-> "visit", code_information |-> << EntryCpt, EntryHcpcs >>,
     standard_charges |-> << ChargeOne, ChargeTwo >>, drug_information |-> DrugInfo],
    [description |-> "visit", code_information |-> << EntryLocal, EntryCpt >>,
     standard_charges |-> << ChargeTwo >>],
    [description |-> "visit", code_information |-> << EntryLocal >>,
     standard_charges |-> << ChargeOne >>],
    [description |-> "visit", code_information |-> << EntryCpt >>,
     standard_charges |-> << ChargeBare >>],
    [description |-> "visit", standard_charges |-> << ChargeOne >>],
    [description |-> "visit", code_information |-> << EntryCpt >>],
    [code_information |-> << EntryHcpcs >>, standard_charges |-> <<>>] }

ModSamples ==
  { [code |-> "25", description |-> "sig", modifier_payer_information |->
       << [payer_name |-> "PayerA", plan_name |-> "PlanA", description |-> "x1.5"] >>],
    [code |-> "59"] }

\* the top-level address arrays of a sample file, in document order
HeadSamples ==
  { << << "hospital_location", << "A", "B" >> >>, << "hospital_address", << "X" >> >> >>,
    << << "hospital_address", << "X", "Y" >> >>, << "hospital_location", << "A", "B" >> >> >>,
    << << "hospital_location", << "A" >> >> >> }

\* a sample file: any body without address arrays, or address arrays in
\* front of a short body
JsonDocs ==
  { [head |-> <<>>, standard_charge_information |-> its, modifier_information |-> ms]
      : its \in SeqsUpTo(ItemSamples, MaxItems), ms \in SeqsUpTo(ModSamples, MaxMods) }
  \cup
  { [head |-> h, standard_charge_information |-> its, modifier_information |-> <<>>]
      : h \in HeadSamples,
        its \in {<<>>, << [description |-> "visit", code_information |-> << EntryCpt >>,
                           standard_charges |-> << ChargeOne >>] >>} }

\* the (prefix, event, value) triples ijson.parse yields for one top-level array
ArrayEvents(key, array) ==
  << [prefix |-> key, event |-> "start_array", value |-> None] >>
    \o [n \in 1..Len(array) |->
          [prefix |-> key \o ".item", event |-> "string", value |-> array[n]]]
    \o << [prefix |-> key, event |-> "end_array", value |-> None] >>

\* the events of the file up to its end; the events of the charge and
\* modifier arrays, whose prefixes are not address prefixes, are left out
Events(root) ==
  Concat([n \in 1..Len(root.head) |-> ArrayEvents(root.head[n][1], root.head[n][2])])
    \o << [prefix |-> "", event |-> "end_map", value |-> None] >>

\* one turn of `for prefix, event, value in parser` (json_parser.py:80-87)
scan_event ==
  /\ walker = "json" /\ pc = "scan"
  /\ scan < Len(Events(doc))
  /\ LET ev == Events(doc)[scan + 1]
     IN  /\ raw_hospital_location' =
               IF ev.prefix = "hospital_location.item" /\ ev.event = "string"
               THEN ev.value ELSE raw_hospital_location
         /\ raw_hospital_address' =
               IF ev.prefix = "hospital_address.item" /\ ev.event = "string"
               THEN ev.value ELSE raw_hospital_address
  /\ scan' = scan + 1
  /\ pc' = IF (Truthy(raw_hospital_location') /\ Truthy(raw_hospital_address'))
               \/ scan' = Len(Events(doc))
           THEN "run" ELSE "scan"
  /\ UNCHANGED << walker, allowed_code_types, code_type_map, doc, i, m, out, out_src,
                  UNKNOWN_CODE_TYPES, FIELD_PRESENCE_LOG, CODE_TYPE_PRESENCE,
                  CODE_TYPE_MAPPINGS_USED, MODIFIER_COUNTS, modifier_list,
                  report, run, prev_out, prev_report >>

\* root.get("standard_charge_information", []) as a list of items
Items(root) == Get(root, "standard_charge_information", <<>>)

\* ------------------------------------------------------------ JSON walker
\* the row dict built at json_parser.py:141-163
JsonRow(item, code, normalized_code_type, charge, payer) ==
  LET drug_info == Get(item, "drug_information", EmptyDict)
      payer_est == Get(payer, "estimated_amount", "")
  IN  Dict(<<
          << "hospital name", metadata.hospital_name >>,
          << "zip code", metadata.zip_code >>,
          << "code", code >>,
          << "code type", normalized_code_type >>,
          << "description", Get(item, "description", "") >>,
          << "drug unit", Get(drug_info, "unit", "") >>,
          << "drug type", Get(drug_info, "type", "") >>,
          << "insurance payer name", Get(payer, "payer_name", "") >>,
          << "insurance payer id", Get(payer, "payer_id", "") >>,
          << "insurance plan name", Get(payer, "plan_name", "") >>,
          << "negotiated price", Get(payer, "standard_charge_dollar", "") >>,
          << "negotiated percentage", Get(payer, "standard_charge_percentage", "") >>,
          << "negotiated algorithm", Get(payer, "standard_charge_algorithm", "") >>,
          << "negotiated methodology", Get(payer, "negotiated_methodology", "") >>,
          << "gross charge", Get(charge, "gross_charge", "") >>,
          << "discounted cash price", Get(charge, "discounted_cash", "") >>,
          << "min price", Get(charge, "minimum", "") >>,
          << "max price", Get(charge, "maximum", "") >>,
          << "estimated amount",
             IF Truthy(payer_est) THEN payer_est ELSE Get(drug_info, "estimated_amount", "") >>,
          << "setting", Get(charge, "setting", "") >>,
          << "additional notes", Get(payer, "additional_payer_notes", "") >> >>)

\* variant: only the payers of the first charge entry are walked
JsonCodeRows_FirstChargeOnly(item, code, normalized_code_type) ==
  LET charge_entries == Get(item, "standard_charges", <<>>)
      payers == IF charge_entries = <<>> THEN <<>>
                ELSE Get(charge_entries[1], "payers_information", <<>>)
  IN  [p \in 1..Len(payers) |->
         JsonRow(item, code, normalized_code_type, charge_entries[1], payers[p])]

\* for charge in charge_entries: for payer in charge.get("payers_information", [])
JsonCodeRows(item, code, normalized_code_type) ==
  LET charge_entries == Get(item, "standard_charges", <<>>)
      PerCharge(charge) ==
        LET payers == Get(charge, "payers_information", <<>>)
        IN  [p \in 1..Len(payers) |-> JsonRow(item, code, normalized_code_type, charge, payers[p])]
  IN  Concat([c \in 1..Len(charge_entries) |-> PerCharge(charge_entries[c])])

\* variant: the allow-list test is left out
JsonCodeEntry_NoAllowList(item, code_entry, st) ==
  LET raw_code_type == Upper(Strip(Get(code_entry, "type", "")))
      normalized_code_type == Get(code_type_map, raw_code_type, None)
      rows == JsonCodeRows(item, Get(code_entry, "code", ""), normalized_code_type)
  IN  [st EXCEPT !.mappings = AddTo(st.mappings, raw_code_type, normalized_code_type),
                 !.presence = Inc(st.presence, normalized_code_type),
                 !.fields = LogRows(st.fields, rows, Range(JsonHEADERS)),
                 !.rows = st.rows \o rows]

\* one turn of `for code_entry in code_info`, on the accumulated state st
JsonCodeEntry(item, code_entry, st) ==
  LET raw_code_type == Upper(Strip(Get(code_entry, "type", "")))
      normalized_code_type == Get(code_type_map, raw_code_type, None)
      mappings == AddTo(st.mappings, raw_code_type, normalized_code_type)
  IN  IF normalized_code_type \notin allowed_code_types
      THEN [st EXCEPT !.mappings = mappings, !.unknown = Inc(st.unknown, raw_code_type)]
      ELSE LET rows == JsonCodeRows(item, Get(code_entry, "code", ""), normalized_code_type)
           IN  [st EXCEPT !.mappings = mappings,
                          !.presence = Inc(st.presence, normalized_code_type),
                          !.fields = LogRows(st.fields, rows, Range(JsonHEADERS)),
                          !.rows = st.rows \o rows]

RECURSIVE JsonCodeLoop(_, _, _)
JsonCodeLoop(item, code_info, st) ==
  IF code_info = <<>> THEN st
  ELSE JsonCodeLoop(item, Tail(code_info), JsonCodeEntry(item, Head(code_info), st))

\* the accumulators as one value, with the rows emitted by the current unit
Acc == [unknown |-> UNKNOWN_CODE_TYPES, fields |-> FIELD_PRESENCE_LOG,
        presence |-> CODE_TYPE_PRESENCE, mappings |-> CODE_TYPE_MAPPINGS_USED,
        rows |-> <<>>]

Emit(st, headers, src) ==
  /\ UNKNOWN_CODE_TYPES' = st.unknown
  /\ FIELD_PRESENCE_LOG' = st.fields
  /\ CODE_TYPE_PRESENCE' = st.presence
  /\ CODE_TYPE_MAPPINGS_USED' = st.mappings
  /\ out' = out \o [r \in 1..Len(st.rows) |-> Written(st.rows[r], headers)]
  /\ out_src' = out_src \o [r \in 1..Len(st.rows) |-> src]

\* one turn of `for item in items` (json_parser.py:106-170)
parse_json_item ==
  /\ walker = "json" /\ pc = "run"
  /\ i < Len(Items(doc))
  /\ LET item == Items(doc)[i + 1]
     IN  Emit(JsonCodeLoop(item, Get(item, "code_information", <<>>), Acc), JsonHEADERS, i + 1)
  /\ i' = i + 1
  /\ UNCHANGED << scan_vars, walker, allowed_code_types, code_type_map, doc, pc, m, MODIFIER_COUNTS,
                  modifier_list, report, run, prev_out, prev_report >>

\* the row dict built at json_parser.py:178-198
JsonModRow(mod, payer) ==
  Dict(<< << "hospital name", metadata.hospital_name >>,
      << "zip code", metadata.zip_code >>,
      << "code", Get(mod, "code", "") >>,
      << "code type", "MODIFIER" >>,
      << "description", Get(mod, "description", "") >>,
      << "insurance payer name", Get(payer, "payer_name", "") >>,
      << "insurance payer id", "" >>,
      << "insurance plan name", Get(payer, "plan_name", "") >>,
      << "negotiated price", "" >>,
      << "negotiated percentage", "" >>,
      << "negotiated algorithm", "" >>,
      << "negotiated methodology", "" >>,
      << "gross charge", "" >>,
      << "discounted cash price", "" >>,
      << "min price", "" >>,
      << "max price", "" >>,
      << "estimated amount", "" >>,
      << "setting", "" >>,
      << "additional notes", Get(payer, "description", "") >> >>)

\* one turn of `for mod in root.get("modifier_information", [])` (json_parser.py:173-203)
parse_json_modifier ==
  /\ walker = "json" /\ pc = "run"
  /\ i = Len(Items(doc))
  /\ m < Len(Get(doc, "modifier_information", <<>>))
  /\ LET mod == Get(doc, "modifier_information", <<>>)[m + 1]
         payers == Get(mod, "modifier_payer_information", <<>>)
         rows == [p \in 1..Len(payers) |-> JsonModRow(mod, payers[p])]
     IN  /\ MODIFIER_COUNTS' = Inc(MODIFIER_COUNTS, Get(mod, "code", ""))
         /\ Emit([Acc EXCEPT !.fields = LogRows(FIELD_PRESENCE_LOG, rows, Range(JsonHEADERS)),
                             !.rows = rows], JsonHEADERS, 0)
  /\ m' = m + 1
  /\ UNCHANGED << scan_vars, walker, allowed_code_types, code_type_map, doc, pc, i,
                  modifier_list, report, run, prev_out, prev_report >>

\* --------------------------------------------------------------- CSV cells
\* the characters of the modifier cells of the model
Chars(s) ==
  CASE s = "" -> <<>>
    [] s = "A" -> << "A" >>
    [] s = "B" -> << "B" >>
    [] s = "C" -> << "C" >>
    [] s = "25" -> << "2", "5" >>
    [] s = "A, B|C" -> << "A", ",", " ", "B", "|", "C" >>
    [] s = "25,,A" -> << "2", "5", ",", ",", "A" >>
    [] s = "A |A" -> << "A", " ", "|", "A" >>

ModifierTokens == {"", "A", "B", "C", "25"}

\* the string with the given characters
StrOf(cs) == CHOOSE s \in ModifierTokens : Chars(s) = cs

RECURSIVE ReSplit(_, _)
\* re.split(r"[,|]", s): pieces is the list so far, its last piece still open
ReSplit(cs, pieces) ==
  IF cs = <<>> THEN pieces
  ELSE IF Head(cs) \in {",", "|"}
       THEN ReSplit(Tail(cs), Append(pieces, <<>>))
       ELSE ReSplit(Tail(cs), [pieces EXCEPT ![Len(pieces)] = Append(@, Head(cs))])

RECURSIVE LStripChars(_)
LStripChars(cs) == IF cs # <<>> /\ Head(cs) = " " THEN LStripChars(Tail(cs)) ELSE cs

RECURSIVE RStripChars(_)
RStripChars(cs) ==
  IF cs # <<>> /\ cs[Len(cs)] = " " THEN RStripChars(SubSeq(cs, 1, Len(cs) - 1)) ELSE cs

\* m.strip() on a piece
StripChars(cs) == RStripChars(LStripChars(cs))

\* variant: empty pieces are kept
ModifierList_KeepsEmpty(modifiers_raw) ==
  LET pieces == ReSplit(Chars(modifiers_raw), << <<>> >>)
  IN  [j \in 1..Len(pieces) |-> StrOf(StripChars(pieces[j]))]

\* [m.strip() for m in re.split(r"[,|]", modifiers_raw) if m.strip()]
ModifierList(modifiers_raw) ==
  LET pieces == ReSplit(Chars(modifiers_raw), << <<>> >>)
      kept == SelectSeq(pieces, LAMBDA piece : StripChars(piece) # <<>>)
  IN  [j \in 1..Len(kept) |-> StrOf(StripChars(kept[j]))]

RECURSIVE CountMods(_, _)
\* for m in modifier_list: MODIFIER_COUNTS[m] += 1
CountMods(counts, tokens) ==
  IF tokens = <<>> THEN counts ELSE CountMods(Inc(counts, Head(tokens)), Tail(tokens))

\* re.search(r"(.*)\[(.*?)\]", payer) on the payer cells of the model
PayerMatch(payer) ==
  CASE payer = "PayerA [7]" -> << "PayerA", "7" >>
    [] OTHER -> << payer, "" >>

Digit == << "1", "2", "3", "4" >>

\* --------------------------------------------------------- tall documents
TallSlotSamples ==
  { Dict(<< << "code|1", "99213" >>, << "code|1|type", "CPT" >>,
            << "code|2", "" >>, << "code|2|type", "" >> >>),
    Dict(<< << "code|1", " 99213 " >>, << "code|1|type", "CPT" >>,
            << "code|2", "J1100" >>, << "code|2|type", " hcpcs " >> >>),
    Dict(<< << "code|1", "X1" >>, << "code|1|type", "LOCAL" >>,
            << "code|2", "99213" >>, << "code|2|type", "CPT" >>,
            << "code|3", "J1100" >>, << "code|3|type", " " >>,
            << "code|4", "" >>, << "code|4|type", "CPT" >> >>),
    Dict(<< << "code|1", "99213" >>, << "code|1|type", "CPT" >>,
            << "code|2", "J1100" >>, << "code|2|type", " hcpcs " >>,
            << "code|3", "99214" >>, << "code|3|type", "CPT" >>,
            << "code|4", "99215" >>, << "code|4|type", "CPT" >> >>) }

TallSharedSamples ==
  { Dict(<< << "description", "visit" >>, << "payer_name", "PayerA [7]" >>,
            << "plan_name", "PlanA" >>, << "standard_charge|negotiated_dollar", "100" >>,
            << "standard_charge|methodology", "case rate" >>,
            << "standard_charge|gross", "500" >>, << "setting", "outpatient" >>,
            << "additional_generic_notes", "gen" >>, << "modifiers", "A, B|C" >> >>),
    Dict(<< << "description", "visit" >>, << "payer_name", "PayerB" >>,
            << "standard_charge|negotiated_percentage", "50" >>,
            << "estimated_amount", "75" >>, << "modifiers", "" >> >>),
    Dict(<< << "payer_name", "PayerB" >>, << "plan_name", "PlanB" >>,
            << "standard_charge|min", "10" >>, << "standard_charge|max", "90" >>,
            << "modifiers", " 25,,A " >> >>) }

TallRowSamples == {sh @@ sl : sh \in TallSharedSamples, sl \in TallSlotSamples}

TallDocs == { [rows |-> rs] : rs \in SeqsUpTo(TallRowSamples, MaxRows) }

\* ------------------------------------------------------------ tall walker
\* the output_row dict built at tall_format_csv_extractor.py:115-138
TallOutputRow(row, code, normalized_code_type, payer_name, payer_id, notes, modifiers_raw) ==
  Dict(<< << "hospital name", metadata.hospital_name >>,
          << "zip code", metadata.zip_code >>,
          << "code", code >>,
          << "code type", normalized_code_type >>,
          << "description", Get(row, "description", "") >>,
          << "drug unit", Get(row, "drug_unit_of_measurement", "") >>,
          << "drug type", Get(row, "drug_type_of_measurement", "") >>,
          << "insurance payer name", payer_name >>,
          << "insurance payer id", payer_id >>,
          << "insurance plan name", Get(row, "plan_name", "") >>,
          << "negotiated price", Get(row, "standard_charge|negotiated_dollar", "") >>,
          << "negotiated percentage", Get(row, "standard_charge|negotiated_percentage", "") >>,
          << "negotiated algorithm", Get(row, "standard_charge|negotiated_algorithm", "") >>,
          << "negotiated methodology", Get(row, "standard_charge|methodology", "") >>,
          << "gross charge", Get(row, "standard_charge|gross", "") >>,
          << "discounted cash price", Get(row, "standard_charge|discounted_cash", "") >>,
          << "min price", Get(row, "standard_charge|min", "") >>,
          << "max price", Get(row, "standard_charge|max", "") >>,
          << "estimated amount", Get(row, "estimated_amount", "") >>,
          << "setting", Get(row, "setting", "") >>,
          << "additional notes", notes >>,
          << "modifiers", modifiers_raw >> >>)

\* one turn of `for i in range(1, 5)` (tall_format_csv_extractor.py:97-145)
TallSlot(row, slot, st) ==
  LET code == Strip(Get(row, "code|" \o Digit[slot], ""))
      raw_code_type == Upper(Strip(Get(row, "code|" \o Digit[slot] \o "|type", "")))
      normalized_code_type == Get(code_type_map, raw_code_type, None)
      mappings == AddTo(st.mappings, raw_code_type, normalized_code_type)
      payer == PayerMatch(Get(row, "payer_name", ""))
      output_row == TallOutputRow(row, code, normalized_code_type, payer[1], payer[2],
                                  Get(row, "additional_generic_notes", ""),
                                  Strip(Get(row, "modifiers", "")))
  IN  IF code = "" \/ raw_code_type = "" THEN st
      ELSE IF normalized_code_type \notin allowed_code_types
      THEN [st EXCEPT !.mappings = mappings, !.unknown = Inc(st.unknown, raw_code_type)]
      ELSE [st EXCEPT !.mappings = mappings,
                      !.presence = Inc(st.presence, normalized_code_type),
                      !.fields = LogFields(st.fields, output_row, Range(CsvHEADERS)),
                      !.rows = Append(st.rows, output_row)]

RECURSIVE TallSlotLoop_ThreeSlots(_, _, _)
\* variant: range(1, 4), the fourth slot is never read
TallSlotLoop_ThreeSlots(row, slot, st) ==
  IF slot > 3 THEN st ELSE TallSlotLoop_ThreeSlots(row, slot + 1, TallSlot(row, slot, st))

RECURSIVE TallSlotLoop(_, _, _)
TallSlotLoop(row, slot, st) ==
  IF slot > 4 THEN st ELSE TallSlotLoop(row, slot + 1, TallSlot(row, slot, st))

\* one turn of `for _, row in chunk.iterrows()` (tall_format_csv_extractor.py:79-145)
extract_tall_row ==
  /\ walker = "tall" /\ pc = "run"
  /\ i < Len(doc.rows)
  /\ LET row == doc.rows[i + 1]
     IN  /\ modifier_list' = ModifierList(Strip(Get(row, "modifiers", "")))
         /\ MODIFIER_COUNTS' = CountMods(MODIFIER_COUNTS, modifier_list')
         /\ Emit(TallSlotLoop(row, 1, Acc), CsvHEADERS, i + 1)
  /\ i' = i + 1
  /\ UNCHANGED << scan_vars, walker, allowed_code_types, code_type_map, doc, pc, m,
                  report, run, prev_out, prev_report >>

\* --------------------------------------------------------- wide documents
\* A column name is the list of its "|"-separated segments: col.split("|").
STANDARD_CHARGE_PREFIXES ==
  Dict(<< << "negotiated_dollar", "negotiated price" >>,
          << "negotiated_percentage", "negotiated percentage" >>,
          << "negotiated_algorithm", "negotiated algorithm" >>,
          << "estimated_amount", "estimated amount" >>,
          << "methodology", "negotiated methodology" >>,
          << "additional_payer_notes", "additional notes" >> >>)

WideBaseColumns ==
  << << "description" >>, << "code", "1" >>, << "code", "1", "type" >>,
     << "code", "2" >>, << "code", "2", "type" >>,
     << "standard_charge", "gross" >>, << "setting" >>,
     << "additional_generic_notes" >>, << "modifiers" >> >>

\* the pivoted columns of the sample files
WideLayouts ==
  { << << "standard_charge", "negotiated_dollar", "PayerA", "PlanA" >>,
       << "standard_charge", "methodology", "PayerA", "PlanA" >> >>,
    << << "standard_charge", "PayerA", "PlanA", "negotiated_dollar" >>,
       << "standard_charge", "PayerA", "PlanA", "methodology" >> >>,
    << << "negotiated_dollar", "PayerA", "PlanA" >>,
       << "standard_charge", " PayerA ", "PlanA", "negotiated_dollar" >>,
       << "additional_payer_notes", "PayerA", "PlanA" >>,
       << "estimated_amount", "PayerB", "PlanB" >>,
       << "standard_charge", "", "PlanB", "methodology" >> >> }

\* the non-empty cell a sample row may carry in a pivoted column
CellValue(col) ==
  CASE col = << "standard_charge", " PayerA ", "PlanA", "negotiated_dollar" >> -> "200"
    [] "negotiated_dollar" \in Range(col) -> "100"
    [] "methodology" \in Range(col) -> "case rate"
    [] "additional_payer_notes" \in Range(col) -> "payer note"
    [] OTHER -> "75"

\* a sample row fills every pivoted column, none, only the first, or all but the first
WideCellSamples(layout) ==
  LET cols == Range(layout)
      Fill(on) == [c \in cols |-> IF c \in on THEN CellValue(c) ELSE ""]
  IN  {Fill(cols), Fill({}), Fill({layout[1]}), Fill(cols \ {layout[1]})}

WideSharedSamples ==
  { Dict(<< << << "description" >>, "visit" >>,
            << << "code", "1" >>, "99213" >>, << << "code", "1", "type" >>, "CPT" >>,
            << << "code", "2" >>, "" >>, << << "code", "2", "type" >>, "" >>,
            << << "standard_charge", "gross" >>, "500" >>, << << "setting" >>, "outpatient" >>,
            << << "additional_generic_notes" >>, "" >>, << << "modifiers" >>, "A, B|C" >> >>),
    Dict(<< << << "description" >>, "visit" >>,
            << << "code", "1" >>, " 99213 " >>, << << "code", "1", "type" >>, "CPT" >>,
            << << "code", "2" >>, "J1100" >>, << << "code", "2", "type" >>, " hcpcs " >>,
            << << "standard_charge", "gross" >>, "" >>, << << "setting" >>, "" >>,
            << << "additional_generic_notes" >>, "gen" >>, << << "modifiers" >>, "" >> >>),
    Dict(<< << << "description" >>, "" >>,
            << << "code", "1" >>, "X1" >>, << << "code", "1", "type" >>, "LOCAL" >>,
            << << "code", "2" >>, "J1100" >>, << << "code", "2", "type" >>, "" >>,
            << << "standard_charge", "gross" >>, "500" >>, << << "setting" >>, "" >>,
            << << "additional_generic_notes" >>, "gen" >>, << << "modifiers" >>, "A |A" >> >>) }

WideRowSamples(layout) ==
  {sh @@ cells : sh \in WideSharedSamples, cells \in WideCellSamples(layout)}

WideDocs ==
  UNION { { [columns |-> WideBaseColumns \o layout, rows |-> rs]
              : rs \in SeqsUpTo(WideRowSamples(layout), MaxRows) } : layout \in WideLayouts }

\* ------------------------------------------------------------ wide walker
\* parts = [p.strip() for p in col.split("|")]
Parts(col) == [j \in 1..Len(col) |-> Strip(col[j])]

\* the payer_cols comprehension (wide_format_csv_extractor.py:89-92)
IsPayerCol(col) ==
  /\ Len(col) - 1 >= 2
  /\ \/ Len(col) - 1 = 2 /\ Strip(col[1]) \in DOMAIN STANDARD_CHARGE_PREFIXES
     \/ Len(col) - 1 > 2 /\ Strip(col[Len(col)]) \in DOMAIN STANDARD_CHARGE_PREFIXES

payer_cols(all_columns) == SelectSeq(all_columns, IsPayerCol)

\* variant: plan and payer taken from the wrong segments
parse_column_for_payer_Swapped(colname) ==
  LET parts == Parts(colname)
  IN  IF Len(parts) < 3 THEN << None, None, None >> ELSE << parts[1], parts[3], parts[2] >>

\* parse_column_for_payer (wide_format_csv_extractor.py:59-63)
parse_column_for_payer(colname) ==
  LET parts == Parts(colname)
  IN  IF Len(parts) < 3 THEN << None, None, None >> ELSE << parts[1], parts[2], parts[3] >>

\* variant: a field already filed under the key keeps its first value
FileUnder_FirstWins(map, key, mapped_field, value) ==
  IF \E g \in 1..Len(map) : map[g].key = key
  THEN [g \in 1..Len(map) |->
          IF map[g].key = key
          THEN [map[g] EXCEPT !.data = map[g].data @@ (mapped_field :> value)]
          ELSE map[g]]
  ELSE Append(map, [key |-> key, data |-> (mapped_field :> value)])

\* payer_row_map[key][mapped_field] = value, on an insertion-ordered dict of dicts
FileUnder(map, key, mapped_field, value) ==
  IF \E g \in 1..Len(map) : map[g].key = key
  THEN [g \in 1..Len(map) |->
          IF map[g].key = key
          THEN [map[g] EXCEPT !.data = (mapped_field :> value) @@ map[g].data]
          ELSE map[g]]
  ELSE Append(map, [key |-> key, data |-> (mapped_field :> value)])

\* one turn of `for i in range(1, 5)` (wide_format_csv_extractor.py:120-135)
WideSlot(row, slot, mapped_field, payer_name, plan_name, value, st) ==
  LET code == Strip(Get(row, << "code", Digit[slot] >>, ""))
      raw_code_type == Upper(Strip(Get(row, << "code", Digit[slot], "type" >>, "")))
      normalized_code_type == Get(code_type_map, raw_code_type, None)
      mappings == AddTo(st.mappings, raw_code_type, normalized_code_type)
      key == << code, normalized_code_type, payer_name, plan_name >>
  IN  IF code = "" \/ raw_code_type = "" THEN st
      ELSE IF normalized_code_type \notin allowed_code_types
      THEN [st EXCEPT !.mappings = mappings, !.unknown = Inc(st.unknown, raw_code_type)]
      ELSE [st EXCEPT !.mappings = mappings,
                      !.presence = Inc(st.presence, normalized_code_type),
                      !.map = FileUnder(st.map, key, mapped_field, value)]

RECURSIVE WideSlotLoop(_, _, _, _, _, _, _)
WideSlotLoop(row, slot, mapped_field, payer_name, plan_name, value, st) ==
  IF slot > 4 THEN st
  ELSE WideSlotLoop(row, slot + 1, mapped_field, payer_name, plan_name, value,
                    WideSlot(row, slot, mapped_field, payer_name, plan_name, value, st))

\* variant: an empty cell is filed like any other value
WideCol_KeepsEmpty(row, col, st) ==
  LET parts == Parts(col)
      field_key == IF Len(parts) = 3 THEN parts[1] ELSE parts[Len(parts)]
      mapped_field == Get(STANDARD_CHARGE_PREFIXES, field_key, "")
      parsed == parse_column_for_payer(col)
      value == row[col]
  IN  IF Len(parts) < 3 THEN st
      ELSE IF mapped_field = "" THEN st
      ELSE IF parsed[2] = "" \/ parsed[2] = None THEN st
      ELSE WideSlotLoop(row, 1, mapped_field, parsed[2], parsed[3], value, st)

\* one turn of `for col in payer_cols` (wide_format_csv_extractor.py:104-135)
WideCol(row, col, st) ==
  LET parts == Parts(col)
      field_key == IF Len(parts) = 3 THEN parts[1] ELSE parts[Len(parts)]
      mapped_field == Get(STANDARD_CHARGE_PREFIXES, field_key, "")
      parsed == parse_column_for_payer(col)
      value == row[col]
  IN  IF Len(parts) < 3 THEN st
      ELSE IF mapped_field = "" THEN st
      ELSE IF parsed[2] = "" \/ parsed[2] = None THEN st
      ELSE IF value = "" THEN st
      ELSE WideSlotLoop(row, 1, mapped_field, parsed[2], parsed[3], value, st)

RECURSIVE WideColLoop(_, _, _)
WideColLoop(row, cols, st) ==
  IF cols = <<>> THEN st ELSE WideColLoop(row, Tail(cols), WideCol(row, Head(cols), st))

\* variant: ", ".join without the filter
JoinNotes_NoFilter(generic_notes, additional_payer_note) ==
  generic_notes \o ", " \o additional_payer_note

\* ", ".join(filter(None, [generic_notes, additional_payer_note]))
JoinNotes(generic_notes, additional_payer_note) ==
  IF generic_notes # "" /\ additional_payer_note # ""
  THEN generic_notes \o ", " \o additional_payer_note
  ELSE IF generic_notes # "" THEN generic_notes ELSE additional_payer_note

\* the record dict built at wide_format_csv_extractor.py:137-166
WideRecord(row, group, generic_notes, modifiers_raw) ==
  LET additional_payer_note == Get(group.data, "additional notes", "")
      field_data == [f \in DOMAIN group.data \ {"additional notes"} |-> group.data[f]]
  IN  Dict(<< << "hospital name", metadata.hospital_name >>,
              << "zip code", metadata.zip_code >>,
              << "code", group.key[1] >>,
              << "code type", group.key[2] >>,
              << "insurance payer name", group.key[3] >>,
              << "insurance plan name", group.key[4] >>,
              << "negotiated price", Get(field_data, "negotiated price", "") >>,
              << "negotiated percentage", Get(field_data, "negotiated percentage", "") >>,
              << "negotiated algorithm", Get(field_data, "negotiated algorithm", "") >>,
              << "negotiated methodology", Get(field_data, "negotiated methodology", "") >>,
              << "estimated amount", Get(field_data, "estimated amount", "") >>,
              << "drug unit", Get(row, << "drug_unit_of_measurement" >>, "") >>,
              << "drug type", Get(row, << "drug_type_of_measurement" >>, "") >>,
              << "description", Get(row, << "description" >>, "") >>,
              << "gross charge", Get(row, << "standard_charge", "gross" >>, "") >>,
              << "discounted cash price", Get(row, << "standard_charge", "discounted_cash" >>, "") >>,
              << "min price", Get(row, << "standard_charge", "min" >>, "") >>,
              << "max price", Get(row, << "standard_charge", "max" >>, "") >>,
              << "setting", Get(row, << "setting" >>, "") >>,
              << "additional notes", JoinNotes(generic_notes, additional_payer_note) >>,
              << "modifiers", modifiers_raw >> >>)

\* one turn of `for _, row in df.iterrows()` (wide_format_csv_extractor.py:95-172)
extract_wide_row ==
  /\ walker = "wide" /\ pc = "run"
  /\ i < Len(doc.rows)
  /\ LET row == doc.rows[i + 1]
         generic_notes == Strip(Get(row, << "additional_generic_notes" >>, ""))
         modifiers_raw == Strip(Get(row, << "modifiers" >>, ""))
         st == WideColLoop(row, payer_cols(doc.columns), Acc @@ [map |-> <<>>])
         records == [g \in 1..Len(st.map) |->
                       WideRecord(row, st.map[g], generic_notes, modifiers_raw)]
     IN  /\ modifier_list' = ModifierList(modifiers_raw)
         /\ MODIFIER_COUNTS' = CountMods(MODIFIER_COUNTS, modifier_list')
         /\ Emit([unknown |-> st.unknown, presence |-> st.presence, mappings |-> st.mappings,
                  fields |-> LogRows(FIELD_PRESENCE_LOG, records,
                                     IF records = <<>> THEN {} ELSE DOMAIN records[1]),
                  rows |-> records], CsvHEADERS, i + 1)
  /\ i' = i + 1
  /\ UNCHANGED << scan_vars, walker, allowed_code_types, code_type_map, doc, pc, m,
                  report, run, prev_out, prev_report >>

\* ------------------------------------------------------------- the devlog
Headers == IF walker = "json" THEN JsonHEADERS ELSE CsvHEADERS

InputLen == IF walker = "json" THEN Len(Items(doc)) ELSE Len(doc.rows)
ModLen == IF walker = "json" THEN Len(Get(doc, "modifier_information", <<>>)) ELSE 0

\* CODE_TYPE_PRESENCE[ct] == 0 reads a defaultdict: the key is inserted
PresenceAfterRead == [k \in DOMAIN CODE_TYPE_PRESENCE \cup allowed_code_types |->
                        Get(CODE_TYPE_PRESENCE, k, 0)]

\* variant: dict(FIELD_PRESENCE_LOG), without the zero entries
full_field_summary_Sparse == FIELD_PRESENCE_LOG

\* {field: FIELD_PRESENCE_LOG.get(field, 0) for field in HEADERS}
full_field_summary == [field \in Range(Headers) |-> Get(FIELD_PRESENCE_LOG, field, 0)]

\* [ct for ct in allowed_code_types if CODE_TYPE_PRESENCE[ct] == 0]
missing_code_types == {ct \in allowed_code_types : Get(CODE_TYPE_PRESENCE, ct, 0) = 0}

\* the end of the walker: the summaries and json.dump of the devlog
write_devlog ==
  /\ pc = "run" /\ i = InputLen /\ m = ModLen
  /\ CODE_TYPE_PRESENCE' = PresenceAfterRead
  /\ report' = [ raw_address_info |-> [hospital_location |-> raw_hospital_location,
                                       hospital_address |-> raw_hospital_address],
                 field_presence_summary |-> full_field_summary,
                 unrecognized_code_types |-> UNKNOWN_CODE_TYPES,
                 missing_code_types |-> missing_code_types,
                 code_type_presence |-> PresenceAfterRead,
                 code_type_normalizations_used |-> CODE_TYPE_MAPPINGS_USED,
                 modifier_counts |-> MODIFIER_COUNTS ]
  /\ pc' = "done"
  /\ UNCHANGED << scan_vars, walker, allowed_code_types, code_type_map, doc, i, m, out, out_src,
                  UNKNOWN_CODE_TYPES, FIELD_PRESENCE_LOG, CODE_TYPE_MAPPINGS_USED,
                  MODIFIER_COUNTS, modifier_list, run, prev_out, prev_report >>

\* the JSON walker starts with the streaming pass and both addresses None;
\* the CSV walkers read them from the metadata rows, which the sample files
\* leave without address columns: mrf_metadata.get("hospital_location", "")
FirstPc == IF walker = "json" THEN "scan" ELSE "run"
NoAddress == IF walker = "json" THEN None ELSE ""

\* a second call of the walker in the same process: locals are fresh, the
\* module-level accumulators are the same objects
invoke_again ==
  /\ pc = "done" /\ run < MaxRuns
  /\ run' = run + 1
  /\ prev_out' = out /\ prev_report' = report
  /\ out' = <<>> /\ out_src' = <<>> /\ i' = 0 /\ m' = 0
  /\ pc' = FirstPc /\ scan' = 0
  /\ raw_hospital_location' = NoAddress /\ raw_hospital_address' = NoAddress
  /\ report' = NoReport /\ modifier_list' = <<>>
  /\ UNCHANGED << walker, allowed_code_types, code_type_map, doc,
                  UNKNOWN_CODE_TYPES, FIELD_PRESENCE_LOG, CODE_TYPE_PRESENCE,
                  CODE_TYPE_MAPPINGS_USED, MODIFIER_COUNTS >>

Inputs == [walker : {"json"}, doc : JsonDocs] \cup [walker : {"tall"}, doc : TallDocs]
            \cup [walker : {"wide"}, doc : WideDocs]

Init ==
  /\ \E inp \in Inputs : walker = inp.walker /\ doc = inp.doc
  /\ \E cfg \in Configs : allowed_code_types = cfg.allowed /\ code_type_map = cfg.map
  /\ pc = FirstPc /\ scan = 0
  /\ raw_hospital_location = NoAddress /\ raw_hospital_address = NoAddress
  /\ i = 0 /\ m = 0 /\ out = <<>> /\ out_src = <<>>
  /\ UNKNOWN_CODE_TYPES = EmptyDict
  /\ FIELD_PRESENCE_LOG = EmptyDict
  /\ CODE_TYPE_PRESENCE = EmptyDict
  /\ CODE_TYPE_MAPPINGS_USED = EmptyDict
  /\ MODIFIER_COUNTS = EmptyDict
  /\ modifier_list = <<>>
  /\ report = NoReport
  /\ run = 1 /\ prev_out = <<>> /\ prev_report = NoReport

Next ==
  \/ scan_event
  \/ parse_json_item
  \/ parse_json_modifier
  \/ extract_tall_row
  \/ extract_wide_row
  \/ write_devlog

Spec == Init /\ [][Next]_vars

NextRerun == Next \/ invoke_again

SpecRerun == Init /\ [][NextRerun]_vars

\* ================================================================== claims
\* indices of the records of this invocation that came from item/row j
FromSrc(j) ==
  LET idxs == SelectSeq([k \in 1..Len(out) |-> k], LAMBDA k : out_src[k] = j)
  IN  [n \in 1..Len(idxs) |-> out[idxs[n]]]

\* number of records of this invocation whose code type is T
CountRecs(T) == Cardinality({k \in 1..Len(out) : out[k]["code type"] = T})

TypesSeen == allowed_code_types \cup DOMAIN CODE_TYPE_PRESENCE
               \cup {out[k]["code type"] : k \in 1..Len(out)}

\* --- C1 ---------------------------------------------------------------
\* C1 (as stated): every record written by any walker has a code type that
\* is a member of the allowed set, the JSON modifier records included.
C1_EveryRecordAllowed ==
  \A k \in 1..Len(out) : out[k]["code type"] \in allowed_code_types

\* C1 (amended): every record that comes from a code entry (JSON) or a code
\* slot (tall, wide) has an allowed code type; the records the JSON walker
\* emits from modifier_information carry the fixed type "MODIFIER", whether
\* or not the allow-list holds it.
C1_CodeRecordsAllowed ==
  \A k \in 1..Len(out) :
     IF out_src[k] = 0
     THEN out[k]["code type"] = "MODIFIER"
     ELSE out[k]["code type"] \in allowed_code_types

C1_Witness ==
  /\ pc = "done" /\ walker = "json"
  /\ \E k \in 1..Len(out) : out_src[k] = 0 /\ out[k]["code type"] \notin allowed_code_types
  /\ \E k \in 1..Len(out) : out_src[k] > 0
  /\ UNKNOWN_CODE_TYPES # EmptyDict

\* --- C2 ---------------------------------------------------------------
\* C2: at the end of a run, for every code type T, the presence counter of T
\* equals the number of records emitted in the run whose code type is T.
C2_PresenceEqualsRecords ==
  pc = "done" => \A T \in TypesSeen : Get(CODE_TYPE_PRESENCE, T, 0) = CountRecs(T)

\* --- C3 ---------------------------------------------------------------
WideSlotCode(row, slot) == Strip(Get(row, << "code", Digit[slot] >>, ""))
WideSlotType(row, slot) == Upper(Strip(Get(row, << "code", Digit[slot], "type" >>, "")))

\* the slots of a wide row that are non-blank and whose type is allowed
WideAllowedSlots(row) ==
  {sl \in 1..4 : /\ WideSlotCode(row, sl) # "" /\ WideSlotType(row, sl) # ""
                 /\ Get(code_type_map, WideSlotType(row, sl), None) \in allowed_code_types}

\* the pivoted columns of the file are exactly colA, colB; row j holds "100" and "case rate"
C3_Row(j, colA, colB) ==
  /\ walker = "wide" /\ j \in 1..i
  /\ {c \in Range(doc.columns) : Len(c) >= 3 /\ c[1] # "code"} = {colA, colB}
  /\ doc.rows[j][colA] = "100" /\ doc.rows[j][colB] = "case rate"
  /\ Cardinality(WideAllowedSlots(doc.rows[j])) = 1

C3_OneRecord(j) ==
  /\ Len(FromSrc(j)) = 1
  /\ FromSrc(j)[1]["negotiated price"] = "100"
  /\ FromSrc(j)[1]["negotiated methodology"] = "case rate"
  /\ FromSrc(j)[1]["insurance payer name"] = "PayerA"
  /\ FromSrc(j)[1]["insurance plan name"] = "PlanA"

\* C3 (as stated): a wide row whose only payer columns are
\* standard_charge|negotiated_dollar|PayerA|PlanA = "100" and
\* standard_charge|methodology|PayerA|PlanA = "case rate", with one allowed
\* code slot, produces exactly one record with price "100", methodology
\* "case rate", payer "PayerA", plan "PlanA".
C3_ClaimedColumns ==
  \A j \in 1..i :
     C3_Row(j, << "standard_charge", "negotiated_dollar", "PayerA", "PlanA" >>,
               << "standard_charge", "methodology", "PayerA", "PlanA" >>)
       => C3_OneRecord(j)

\* C3 (amended): the same with the field key as the last segment, that is
\* the columns standard_charge|PayerA|PlanA|negotiated_dollar = "100" and
\* standard_charge|PayerA|PlanA|methodology = "case rate".
C3_FieldKeyLast ==
  \A j \in 1..i :
     C3_Row(j, << "standard_charge", "PayerA", "PlanA", "negotiated_dollar" >>,
               << "standard_charge", "PayerA", "PlanA", "methodology" >>)
       => C3_OneRecord(j)

C3_Witness ==
  /\ pc = "done"
  /\ \E j \in 1..i :
       /\ C3_Row(j, << "standard_charge", "PayerA", "PlanA", "negotiated_dollar" >>,
                    << "standard_charge", "PayerA", "PlanA", "methodology" >>)
       /\ C3_OneRecord(j)

\* --- C4 ---------------------------------------------------------------
\* C4: a second invocation of the same walker on the same input and config
\* writes the same records and the same audit report as the first.
C4_Idempotent ==
  (run = 2 /\ pc = "done") => (out = prev_out /\ report = prev_report)

\* --- C5 ---------------------------------------------------------------
\* C5: at the end of a run, missing_code_types is exactly the set of allowed
\* code types that no emitted record carries.
C5_MissingExact ==
  pc = "done" => report.missing_code_types = {T \in allowed_code_types : CountRecs(T) = 0}

\* --- C6 ---------------------------------------------------------------
JsonEntryType(code_entry) == Get(code_type_map, Upper(Strip(Get(code_entry, "type", ""))), None)

\* the (code entry, charge entry, payer entry) triples of a line item, by position
JsonTriples(item) ==
  LET ci == Get(item, "code_information", <<>>)
      ch == Get(item, "standard_charges", <<>>)
  IN  {t \in (1..Len(ci)) \X (1..Len(ch)) \X (1..2) :
         /\ JsonEntryType(ci[t[1]]) \in allowed_code_types
         /\ t[3] <= Len(Get(ch[t[2]], "payers_information", <<>>))}

RECURSIVE SumPayers(_)
SumPayers(charges) ==
  IF charges = <<>> THEN 0
  ELSE Len(Get(Head(charges), "payers_information", <<>>)) + SumPayers(Tail(charges))

JsonAllowedEntries(item) ==
  LET ci == Get(item, "code_information", <<>>)
  IN  Cardinality({e \in 1..Len(ci) : JsonEntryType(ci[e]) \in allowed_code_types})

\* the record carries the fields of the triple t of the item
JsonRecordOf(rec, item, t) ==
  LET entry == item.code_information[t[1]]
      charge == item.standard_charges[t[2]]
      payer == charge.payers_information[t[3]]
  IN  /\ rec["code"] = Get(entry, "code", "")
      /\ rec["code type"] = JsonEntryType(entry)
      /\ rec["gross charge"] = Get(charge, "gross_charge", "")
      /\ rec["min price"] = Get(charge, "minimum", "")
      /\ rec["setting"] = Get(charge, "setting", "")
      /\ rec["insurance payer name"] = Get(payer, "payer_name", "")
      /\ rec["insurance plan name"] = Get(payer, "plan_name", "")
      /\ rec["negotiated price"] = Get(payer, "standard_charge_dollar", "")
      /\ rec["description"] = Get(item, "description", "")

JsonMinimalDoc ==
  /\ walker = "json" /\ Len(Items(doc)) = 1 /\ ModLen = 0
  /\ Len(Get(Items(doc)[1], "code_information", <<>>)) = 1
  /\ JsonAllowedEntries(Items(doc)[1]) = 1
  /\ Len(Get(Items(doc)[1], "standard_charges", <<>>)) = 1
  /\ SumPayers(Get(Items(doc)[1], "standard_charges", <<>>)) = 1

\* C6: each JSON line item emits (allowed code entries) x (payer entries
\* summed over its charge entries) records, one per (code entry, charge
\* entry, payer entry) triple; an item without code_information,
\* standard_charges or payers_information emits none; the document with one
\* item, one allowed entry, one charge and one payer yields one record and
\* an empty unrecognized_code_types.
C6_JsonRecordCount ==
  walker = "json" =>
    /\ \A j \in 1..i :
         LET item == Items(doc)[j]
         IN  /\ Len(FromSrc(j)) = JsonAllowedEntries(item)
                                    * SumPayers(Get(item, "standard_charges", <<>>))
             /\ Len(FromSrc(j)) = Cardinality(JsonTriples(item))
             /\ \A t \in JsonTriples(item) :
                  \E n \in 1..Len(FromSrc(j)) : JsonRecordOf(FromSrc(j)[n], item, t)
             /\ \A n \in 1..Len(FromSrc(j)) :
                  \E t \in JsonTriples(item) : JsonRecordOf(FromSrc(j)[n], item, t)
             /\ ( \/ "code_information" \notin DOMAIN item
                  \/ "standard_charges" \notin DOMAIN item
                  \/ \A c \in 1..Len(item.standard_charges) :
                        "payers_information" \notin DOMAIN item.standard_charges[c] )
                  => FromSrc(j) = <<>>
    /\ (pc = "done" /\ JsonMinimalDoc) =>
         (Len(out) = 1 /\ report.unrecognized_code_types = EmptyDict)

C6_Witness ==
  /\ walker = "json" /\ pc = "done" /\ Len(Items(doc)) = 2
  /\ Len(FromSrc(1)) = 6
  /\ "standard_charges" \notin DOMAIN Items(doc)[2]
  /\ "code_information" \in DOMAIN Items(doc)[2]

\* --- C7 ---------------------------------------------------------------
TallSlotCode(row, slot) == Strip(Get(row, "code|" \o Digit[slot], ""))
TallSlotType(row, slot) == Upper(Strip(Get(row, "code|" \o Digit[slot] \o "|type", "")))

\* the slots of a tall row that are non-blank and whose type is allowed, in order
TallAllowedSlots(row) ==
  SelectSeq(<< 1, 2, 3, 4 >>,
            LAMBDA sl : /\ TallSlotCode(row, sl) # "" /\ TallSlotType(row, sl) # ""
                        /\ Get(code_type_map, TallSlotType(row, sl), None) \in allowed_code_types)

TallSharedOf(rec, row) ==
  /\ rec["description"] = Get(row, "description", "")
  /\ rec["insurance plan name"] = Get(row, "plan_name", "")
  /\ rec["negotiated price"] = Get(row, "standard_charge|negotiated_dollar", "")
  /\ rec["negotiated percentage"] = Get(row, "standard_charge|negotiated_percentage", "")
  /\ rec["negotiated methodology"] = Get(row, "standard_charge|methodology", "")
  /\ rec["gross charge"] = Get(row, "standard_charge|gross", "")
  /\ rec["min price"] = Get(row, "standard_charge|min", "")
  /\ rec["max price"] = Get(row, "standard_charge|max", "")
  /\ rec["estimated amount"] = Get(row, "estimated_amount", "")
  /\ rec["setting"] = Get(row, "setting", "")
  /\ rec["additional notes"] = Get(row, "additional_generic_notes", "")

\* C7: each of the four slots of a tall row is evaluated on its own; a slot
\* with a blank code or type emits nothing; each non-blank slot with an
\* allowed type emits one record with the slot's code and normalized type
\* and the row's shared fields; a row emits zero to four records, and a row
\* with slot 1 allowed and slot 2 blank emits exactly one.
C7_TallSlots ==
  walker = "tall" =>
    \A j \in 1..i :
       LET row == doc.rows[j]
           slots == TallAllowedSlots(row)
           recs == FromSrc(j)
       IN  /\ Len(recs) = Len(slots)
           /\ Len(recs) \in 0..4
           /\ \A n \in 1..Len(recs) :
                /\ recs[n]["code"] = TallSlotCode(row, slots[n])
                /\ recs[n]["code type"] = code_type_map[TallSlotType(row, slots[n])]
                /\ TallSharedOf(recs[n], row)
           /\ ( /\ slots # <<>> /\ slots[1] = 1
                /\ TallSlotCode(row, 2) = ""
                /\ TallSlotCode(row, 3) = "" /\ TallSlotCode(row, 4) = "" ) => Len(recs) = 1

C7_Witness ==
  /\ walker = "tall" /\ pc = "done" /\ i = 2
  /\ Len(FromSrc(1)) = 1 /\ TallSlotCode(doc.rows[1], 2) = "" /\ "code|2" \in DOMAIN doc.rows[1]
  /\ Len(FromSrc(2)) = 4

\* --- C8 ---------------------------------------------------------------
\* the modifier cell of the row just handled, as the walker reads it
LastModifiersRaw ==
  IF walker = "tall" THEN Strip(Get(doc.rows[i], "modifiers", ""))
  ELSE Strip(Get(doc.rows[i], << "modifiers" >>, ""))

Occurrences(tokens, t) == Cardinality({n \in 1..Len(tokens) : tokens[n] = t})

\* C8: in the tall and wide walkers the modifier list of a row is the
\* modifier cell split on comma or pipe, pieces trimmed, empty pieces
\* dropped, in order; every occurrence of a token adds one to its counter;
\* "A, B|C" gives ["A","B","C"], each counted once; an empty cell gives the
\* empty list and changes no counter.
C8_Modifiers ==
  [][ (walker \in {"tall", "wide"} /\ i' = i + 1) =>
        LET raw == IF walker = "tall" THEN Strip(Get(doc.rows[i'], "modifiers", ""))
                   ELSE Strip(Get(doc.rows[i'], << "modifiers" >>, ""))
            tokens == modifier_list'
        IN  /\ raw = "A, B|C" => tokens = << "A", "B", "C" >>
            /\ raw = "" => (tokens = <<>> /\ MODIFIER_COUNTS' = MODIFIER_COUNTS)
            /\ raw = "25,,A" => tokens = << "25", "A" >>
            /\ raw = "A |A" => tokens = << "A", "A" >>
            /\ \A n \in 1..Len(tokens) :
                 /\ Chars(tokens[n]) # <<>>
                 /\ \A c \in 1..Len(Chars(tokens[n])) : Chars(tokens[n])[c] \notin {",", "|"}
                 /\ Chars(tokens[n])[1] # " "
                 /\ Chars(tokens[n])[Len(Chars(tokens[n]))] # " "
            /\ DOMAIN MODIFIER_COUNTS' = DOMAIN MODIFIER_COUNTS \cup Range(tokens)
            /\ \A t \in DOMAIN MODIFIER_COUNTS' :
                 MODIFIER_COUNTS'[t] = Get(MODIFIER_COUNTS, t, 0) + Occurrences(tokens, t)
    ]_vars

C8_Witness ==
  /\ walker \in {"tall", "wide"} /\ i = 2
  /\ LastModifiersRaw = "A, B|C"
  /\ modifier_list = << "A", "B", "C" >>
  /\ "A" \in DOMAIN MODIFIER_COUNTS /\ MODIFIER_COUNTS["A"] = 3
  /\ MODIFIER_COUNTS["B"] = 1

\* --- C9 ---------------------------------------------------------------
\* C9: the field_presence_summary of the report has exactly the fields of
\* the walker's output header as keys, and value zero for every field that
\* was never non-empty in an emitted record.
C9_FieldSummaryKeys ==
  pc = "done" =>
    /\ DOMAIN report.field_presence_summary = Range(Headers)
    /\ \A f \in Range(Headers) :
         (\A k \in 1..Len(out) : out[k][f] = "") => report.field_presence_summary[f] = 0

C9_Witness ==
  /\ pc = "done" /\ Len(out) > 0
  /\ \E f \in Range(Headers) : f \notin DOMAIN FIELD_PRESENCE_LOG
                                 /\ report.field_presence_summary[f] = 0
  /\ \E f \in Range(Headers) : report.field_presence_summary[f] > 1

\* --- C10 --------------------------------------------------------------
\* the raw token of each rejected code entry (JSON) or non-blank slot (CSV)
RejectedTokens ==
  IF walker = "json"
  THEN Concat([j \in 1..Len(Items(doc)) |->
         LET ci == Get(Items(doc)[j], "code_information", <<>>)
             bad == SelectSeq(ci, LAMBDA e : JsonEntryType(e) \notin allowed_code_types)
         IN  [n \in 1..Len(bad) |-> Upper(Strip(Get(bad[n], "type", "")))]])
  ELSE Concat([j \in 1..Len(doc.rows) |->
         LET row == doc.rows[j]
             Code(sl) == IF walker = "tall" THEN TallSlotCode(row, sl) ELSE WideSlotCode(row, sl)
             Type(sl) == IF walker = "tall" THEN TallSlotType(row, sl) ELSE WideSlotType(row, sl)
             bad == SelectSeq(<< 1, 2, 3, 4 >>,
                      LAMBDA sl : /\ Code(sl) # "" /\ Type(sl) # ""
                                  /\ Get(code_type_map, Type(sl), None) \notin allowed_code_types)
         IN  [n \in 1..Len(bad) |-> Type(bad[n])]])

\* C10: at the end of a run the unrecognized count of a raw token equals
\* the number of code entries or non-blank slots with that token whose
\* normalized type is not allowed, whatever the number of payer columns.
C10_UnrecognizedCount ==
  pc = "done" =>
    \A tok \in DOMAIN UNKNOWN_CODE_TYPES \cup Range(RejectedTokens) :
       Get(UNKNOWN_CODE_TYPES, tok, 0) = Occurrences(RejectedTokens, tok)

\* --- C11 --------------------------------------------------------------
\* the canonical field, payer and plan a selected column name stands for
ColField(col) ==
  Get(STANDARD_CHARGE_PREFIXES,
      IF Len(col) = 3 THEN Strip(col[1]) ELSE Strip(col[Len(col)]), "")
ColPayer(col) == Strip(col[2])
ColPlan(col) == Strip(col[3])

\* positions, in scan order, of the selected columns that hold a value in row
Contributing(row) ==
  LET cols == payer_cols(doc.columns)
  IN  {n \in 1..Len(cols) : row[cols[n]] # "" /\ ColPayer(cols[n]) # ""}

\* the group keys the contributing columns and the allowed slots of row give
WideGroupKeys(row) ==
  LET cols == payer_cols(doc.columns)
  IN  { << WideSlotCode(row, sl), Get(code_type_map, WideSlotType(row, sl), None),
           ColPayer(cols[n]), ColPlan(cols[n]) >> :
          sl \in WideAllowedSlots(row), n \in Contributing(row) }

RecKey(rec) == << rec["code"], rec["code type"],
                  rec["insurance payer name"], rec["insurance plan name"] >>

\* positions of the contributing columns that supply field for the key
Suppliers(row, key, field) ==
  LET cols == payer_cols(doc.columns)
  IN  {n \in Contributing(row) : /\ ColPayer(cols[n]) = key[3] /\ ColPlan(cols[n]) = key[4]
                                  /\ ColField(cols[n]) = field}

\* the value of the supplier that comes last in scan order, "" without one
LastValue(row, key, field) ==
  LET ns == Suppliers(row, key, field)
  IN  IF ns = {} THEN ""
      ELSE row[payer_cols(doc.columns)[CHOOSE n \in ns : \A o \in ns : o <= n]]

ChargeFields == {"negotiated price", "negotiated percentage", "negotiated algorithm",
                 "negotiated methodology", "estimated amount"}

\* C11: in the wide walker every processed row emits exactly one record per
\* distinct group key (code, normalized code type, payer, plan) that its
\* non-empty selected payer columns resolve to, all columns of one key go
\* into that one record, and a canonical field supplied by two columns of
\* the same key holds the value of the column later in scan order.
C11_OneRecordPerKey ==
  walker = "wide" =>
    \A j \in 1..i :
       LET row == doc.rows[j]
           recs == FromSrc(j)
       IN  /\ Len(recs) = Cardinality(WideGroupKeys(row))
           /\ {RecKey(recs[n]) : n \in 1..Len(recs)} = WideGroupKeys(row)
           /\ \A n \in 1..Len(recs) : \A f \in ChargeFields :
                  recs[n][f] = LastValue(row, RecKey(recs[n]), f)

\* a row with several group keys, one of them fed by two columns that
\* supply the negotiated price with different values
C11_Witness ==
  /\ walker = "wide"
  /\ \E j \in 1..i :
        LET row == doc.rows[j]
            recs == FromSrc(j)
            cols == payer_cols(doc.columns)
        IN  /\ Len(recs) >= 3
            /\ \E n \in 1..Len(recs) :
                  /\ \E a, b \in Suppliers(row, RecKey(recs[n]), "negotiated price") :
                        a < b /\ row[cols[a]] # row[cols[b]]
                           /\ recs[n]["negotiated price"] = row[cols[b]]
                  /\ recs[n]["negotiated methodology"] = ""
                  /\ \E o \in 1..Len(recs) : recs[o]["estimated amount"] # ""

\* --- C12 --------------------------------------------------------------
\* position in Events(doc) of the first array-item string of key, 0 without one
FirstItemAt(key) ==
  LET evs == Events(doc)
      at == {n \in 1..Len(evs) : evs[n].prefix = key \o ".item" /\ evs[n].event = "string"}
  IN  IF at = {} THEN 0 ELSE CHOOSE n \in at : \A o \in at : n <= o

\* the first array-item string of key in document order, None without one
FirstItem(key) ==
  IF FirstItemAt(key) = 0 THEN None ELSE Events(doc)[FirstItemAt(key)].value

\* the first event after which both first items have gone by, the end of
\* the file if one of them is missing
BothFoundAt ==
  LET l == FirstItemAt("hospital_location")
      a == FirstItemAt("hospital_address")
  IN  IF l = 0 \/ a = 0 THEN Len(Events(doc)) ELSE IF l < a THEN a ELSE l

\* C12: once the streaming pass of the JSON walker is over, the reported
\* hospital_location is the first hospital_location array-item string in
\* document order, the reported hospital_address is the first
\* hospital_address array-item string, and the pass consumed the events up
\* to the first one after which both had been found.
C12_FirstAddressItems ==
  (walker = "json" /\ pc # "scan") =>
     /\ raw_hospital_location = FirstItem("hospital_location")
     /\ raw_hospital_address = FirstItem("hospital_address")
     /\ scan = BothFoundAt
     /\ pc = "done" =>
          /\ report.raw_address_info.hospital_location = FirstItem("hospital_location")
          /\ report.raw_address_info.hospital_address = FirstItem("hospital_address")

\* --- C13 --------------------------------------------------------------
\* C13: whenever a walker invocation has not yet consumed an input item or
\* row, whatever invocations went before it in the process, every counter
\* of the five audit accumulators is zero and every set of normalization
\* mappings is empty.
C13_FreshAccumulators ==
  (pc # "done" /\ i = 0 /\ m = 0) =>
     /\ \A k \in DOMAIN FIELD_PRESENCE_LOG : FIELD_PRESENCE_LOG[k] = 0
     /\ \A k \in DOMAIN CODE_TYPE_PRESENCE : CODE_TYPE_PRESENCE[k] = 0
     /\ \A k \in DOMAIN UNKNOWN_CODE_TYPES : UNKNOWN_CODE_TYPES[k] = 0
     /\ \A k \in DOMAIN CODE_TYPE_MAPPINGS_USED : CODE_TYPE_MAPPINGS_USED[k] = {}
     /\ \A k \in DOMAIN MODIFIER_COUNTS : MODIFIER_COUNTS[k] = 0

\* --- C14 --------------------------------------------------------------
\* the generic note of a row and the per-payer note of the group of rec
GenericNote(row) == Strip(Get(row, << "additional_generic_notes" >>, ""))
PayerNote(row, rec) == LastValue(row, RecKey(rec), "additional notes")

\* C14: in every record of the wide walker 'additional notes' is the
\* generic note of the row and the per-payer note of the record's own group
\* joined by ", " when both are non-empty, the non-empty one alone when
\* only one is, and empty when both are; a note filed for another group of
\* the row is never part of it.
C14_AdditionalNotes ==
  walker = "wide" =>
    \A j \in 1..i : \A n \in 1..Len(FromSrc(j)) :
       LET row == doc.rows[j]
           rec == FromSrc(j)[n]
           gen == GenericNote(row)
           own == PayerNote(row, rec)
       IN  rec["additional notes"] =
             CASE gen # "" /\ own # "" -> gen \o ", " \o own
               [] gen # "" /\ own = "" -> gen
               [] gen = "" /\ own # "" -> own
               [] OTHER -> ""

\* two rows: one with a generic note, whose groups are one with and one
\* without a per-payer note, and one without a generic note
C14_Witness ==
  /\ walker = "wide" /\ pc = "done"
  /\ \E j \in 1..i : \E a, b \in 1..Len(FromSrc(j)) :
        /\ GenericNote(doc.rows[j]) # ""
        /\ PayerNote(doc.rows[j], FromSrc(j)[a]) # ""
        /\ PayerNote(doc.rows[j], FromSrc(j)[b]) = ""
        /\ FromSrc(j)[a]["additional notes"] = "gen, payer note"
        /\ FromSrc(j)[b]["additional notes"] = "gen"
  /\ \E j \in 1..i : \E a, b \in 1..Len(FromSrc(j)) :
        /\ GenericNote(doc.rows[j]) = ""
        /\ FromSrc(j)[a]["additional notes"] = "payer note"
        /\ FromSrc(j)[b]["additional notes"] = ""

\* --- C15 --------------------------------------------------------------
\* number of records of this invocation whose field F is non-empty
NonEmptyRecs(F) == Cardinality({k \in 1..Len(out) : out[k][F] # ""})

\* C15: in an invocation that started with empty accumulators, after the
\* records of each item or row and at the end of the run, the field
\* presence counter of every canonical field equals the number of records
\* emitted so far whose value for that field is non-empty, the JSON
\* modifier records and the wide group records included.
C15_FieldPresence ==
  \A F \in Range(Headers) \cup DOMAIN FIELD_PRESENCE_LOG :
     Get(FIELD_PRESENCE_LOG, F, 0) = NonEmptyRecs(F)

\* --- C16 --------------------------------------------------------------
\* the selected payer columns of the file in which row holds a value
FilledPayerCols(row) == {c \in Range(payer_cols(doc.columns)) : row[c] # ""}

\* C16: a step of the wide walker over a row appends records only if some
\* selected payer column of the row is non-empty; over a row without one,
\* whatever its code slots and shared fields, it appends no record and
\* leaves the code-type presence, unrecognized and normalization-mapping
\* accumulators as they were (the modifier counts may change).
C16_NoPayerValueNoRecord ==
  [][ (walker = "wide" /\ pc = "run" /\ i' = i + 1) =>
        LET row == doc.rows[i + 1]
        IN  /\ out' # out => FilledPayerCols(row) # {}
            /\ FilledPayerCols(row) = {} =>
                  /\ out' = out
                  /\ CODE_TYPE_PRESENCE' = CODE_TYPE_PRESENCE
                  /\ UNKNOWN_CODE_TYPES' = UNKNOWN_CODE_TYPES
                  /\ CODE_TYPE_MAPPINGS_USED' = CODE_TYPE_MAPPINGS_USED ]_vars

\* a file with selected payer columns in which one row, with an allowed
\* code slot and a description, holds no payer value and gave no record,
\* while another row gave records and modifiers were counted
C16_Witness ==
  /\ walker = "wide" /\ pc = "done"
  /\ payer_cols(doc.columns) # <<>>
  /\ \E j \in 1..i :
        /\ FilledPayerCols(doc.rows[j]) = {}
        /\ WideAllowedSlots(doc.rows[j]) # {}
        /\ doc.rows[j][<< "description" >>] # ""
        /\ FromSrc(j) = <<>>
  /\ \E j \in 1..i : FromSrc(j) # <<>>
  /\ MODIFIER_COUNTS # EmptyDict

====
